---- MODULE Spec2Model ----
(***************************************************************************)
(* Model of the pumplotto backend: the game store (games, participants,   *)
(* winners), the scheduler (bootstrap and cron cycle), the Solana         *)
(* listener's processTransaction, and the draw service.                   *)
(***************************************************************************)
EXTENDS Integers, Sequences, FiniteSets, TLC

\* ------------------------------------------------------------------ bounds
\* Number of ledger signatures the listener may be handed.
MaxSigs == 2
\* Cap on AUTO_INCREMENT game ids (rows of the games table).
MaxGames == 3
\* Last instant of the wall clock, in clock phases.
MaxTime == 8
\* Number of incidents (a failing store statement, a process restart) in one run.
MaxIncidents == 1
\* Longest participant list handed to the draw functions on their own.
MaxLen == 3
\* Number of completeGame calls that name a winner, per game, when the
\* services are called directly.
MaxCalls == 2
\* Number of games created when the services are called directly.
MaxSvcGames == 1
\* Last slot the chain reaches while the listener polls.
MaxSlot == 3
\* Number of signatures the watched address gets one per slot.
MaxChain == 2
\* Largest maxRetries handed to retryOperation (the callers pass 3 and 5).
MaxAttempts == 5

\* ------------------------------------------------------- program constants
\* Shortlist cap passed by executeDrawForGame.
ShortlistCap == 25
\* Configured GAME_DURATION_MINUTES (an environment setting; 2 is a legal one).
GameDurationMinutes == 2
\* Clock phases per stored DATETIME unit: exactly on the unit, below the half,
\* at or above the half (a DATETIME column keeps no fraction and rounds).
Phases == 3

\* The limit option of getSignaturesForAddress in checkForNewTransactions.
PageLimit == 25
\* this.maxRetries of the listener, compared with retryCount in the catch.
maxRetries == 3

\* minSolAmount (MIN_SOL_AMOUNT, default 0.040 SOL) in units of 0.0000001 SOL.
MinSolAmount == 400000

\* Wallet addresses are numbered; NULL is JavaScript's null.
NULL == 0
Wallets == {1, 2, 3}

\* ------------------------------------------------------------ small helpers
Range(s) == {s[k] : k \in DOMAIN s}

Min(a, b) == IF a < b THEN a ELSE b

Swap(a, p, q) == [a EXCEPT ![p] = a[q], ![q] = a[p]]

RECURSIVE Fact(_)
Fact(n) == IF n <= 1 THEN 1 ELSE n * Fact(n - 1)

\* --------------------------------------------------------------- drawService
\* Math.floor(Math.random() * n): the indexes a random draw over n can give.
\* (RandomIndexOffByOne: the same draw never reaching the last index.)
RandomIndexOffByOne(n) == 0 .. (n - 2)
RandomIndex(n) == 0 .. (n - 1)

\* [...new Set(participants)]: first occurrences, in order.
\* (DedupKeepAll: the list taken as it is, repeated entries kept.)
DedupKeepAll(s) == s
RECURSIVE Dedup(_)
Dedup(s) ==
    IF s = <<>> THEN <<>>
    ELSE LET r == Dedup(SubSeq(s, 1, Len(s) - 1))
             x == s[Len(s)]
         IN IF x \in Range(r) THEN r ELSE Append(r, x)

\* The random choices one shuffle of n elements consumes: the k-th choice is
\* the j drawn for i = n - k, from 0..i.
ChoiceSeqs(n) ==
    IF n <= 1 THEN {<<>>}
    ELSE {c \in [1 .. (n - 1) -> 0 .. (n - 1)] :
              \A k \in 1 .. (n - 1) : c[k] \in RandomIndex(n - k + 1)}

\* shuffleArray's loop from index i (0-based) downwards, with choices c.
RECURSIVE ShuffleFrom(_, _, _)
\* (ShuffleFromBelow: the loop with j drawn from 0..i-1 instead of 0..i.)
ShuffleFromBelow(a, i, c) ==
    IF i > 0
    THEN ShuffleFrom(Swap(a, i + 1, (Head(c) % i) + 1), i - 1, Tail(c))
    ELSE a
ShuffleFrom(a, i, c) ==
    IF i > 0
    THEN ShuffleFrom(Swap(a, i + 1, Head(c) + 1), i - 1, Tail(c))
    ELSE a

shuffleArray(a, c) == ShuffleFrom(a, Len(a) - 1, c)

\* selectShortlist(participants, maxCount) with the random choices c
\* (selectShortlistNoSlice: the same without the final slice).
selectShortlistNoSlice(participants, maxCount, c) ==
    shuffleArray(Dedup(participants), c)
selectShortlist(participants, maxCount, c) ==
    LET shuffled == shuffleArray(Dedup(participants), c)
    IN SubSeq(shuffled, 1, Min(maxCount, Len(shuffled)))

selectRandomWinner(shortlist, r) ==
    IF Len(shortlist) = 0 THEN NULL ELSE shortlist[r + 1]

\* ---------------------------------------------------------------- the state
VARIABLES
    now,            \* wall clock (new Date()), in clock phases
    games,          \* games table: row k has game_id k
    participants,   \* participants table: row k has entry_id k
    winners,        \* winners table: row k has winner_id k
    sched,          \* the scheduler: bootstrap, then one cron cycle at a time
    lst,            \* the listener's processTransaction executions in progress
    lastFire,       \* the clock unit of the latest cron match that is used up
    incidents,      \* store statements that have failed and restarts, so far
    admitLog,       \* per participant row: status of its game at the insert
    closeLog,       \* per completeGame call: what the call found and left
    drawLog,        \* per returned executeDrawForGame: what it read and returned
    dIn, dMax, dPc, dArr, dChoices, dShortlist, dWinner,
                    \* the draw functions run on their own: participant list,
                    \* cap, position, shuffled array, choices made, results
    ledger,         \* the chain as the RPC node reports it: slot, signatures
    lsn,            \* the SolanaListener object's fields, and what it did
    ticks,          \* the executions of checkForNewTransactions in progress
    rt              \* one call of retryOperation run on its own

storeVars == <<games, participants, winners>>
sysVars == <<now, sched, lst, lastFire, incidents>>
logVars == <<admitLog, closeLog, drawLog>>
drawVars == <<dIn, dMax, dPc, dArr, dChoices, dShortlist, dWinner>>
pollVars == <<ledger, lsn, ticks, rt>>
vars == <<now, games, participants, winners, sched, lst, lastFire, incidents,
          admitLog, closeLog, drawLog,
          dIn, dMax, dPc, dArr, dChoices, dShortlist, dWinner,
          ledger, lsn, ticks, rt>>

Sigs == 1 .. MaxSigs
Workers == {1, 2}

\* The ledger: the paying account and the SOL spent of each signature.
WalletOf(s) == ((s - 1) % 2) + 1
\* SOL amounts are counted in units of 0.0000001 SOL (100 lamports), prize
\* pools in units of 0.0000000001 SOL, a tenth of what DECIMAL(20,9) keeps.
\* The lamports the fee payer of transaction s spent, (preBalances[0] -
\* postBalances[0]): 0.0400001 SOL, 10 SOL, then 0.04 SOL and upwards.
SolAmountOf(s) ==
    CASE s = 1 -> MinSolAmount + 1
      [] s = 2 -> 250 * MinSolAmount
      [] OTHER -> MinSolAmount + 10 * (s - 3)

\* connection.getTransaction(signature): the detail the ledger returns.
TxOf(s) == [complete |-> TRUE, failed |-> FALSE, spent |-> SolAmountOf(s)]

\* validateTransaction: meta.err === null and amountSpent >= minLamports
\* (ValidateTransactionAbove: the same with amountSpent > minLamports).
ValidateTransactionAbove(tx) == ~tx.failed /\ tx.spent > MinSolAmount
ValidateTransaction(tx) == ~tx.failed /\ tx.spent >= MinSolAmount

\* ------------------------------------------------------------ time and cron
\* GAME_DURATION_MINUTES in clock phases.
Period == GameDurationMinutes * Phases

\* A DATETIME column stores the instant rounded to its unit.
DbDatetime(t) == Phases * ((t + Phases \div 2) \div Phases)

ClockUnit(t) == t \div Phases

\* The cron pattern */GAME_DURATION_MINUTES matches the units divisible by it.
CronMatches(t) == ClockUnit(t) % GameDurationMinutes = 0

\* ------------------------------------------------------------------ the store
SqlNull == <<"null">>
JsonStringify(list) == <<"json", list>>

\* The variant that leaves the duration out of end_time.
NewGameRowNoDuration(t) ==
    [start_time |-> DbDatetime(t), end_time |-> DbDatetime(t),
     status |-> "running", winner_address |-> NULL,
     draw_shortlist |-> SqlNull, total_volume |-> 0, prize_pool |-> 0]

\* INSERT INTO games (start_time, end_time, status) VALUES (?, ?, 'running')
NewGameRow(t) ==
    [start_time |-> DbDatetime(t), end_time |-> DbDatetime(t + Period),
     status |-> "running", winner_address |-> NULL,
     draw_shortlist |-> SqlNull, total_volume |-> 0, prize_pool |-> 0]

Running(gs) == {g \in DOMAIN gs : gs[g].status = "running"}

\* SELECT * FROM games WHERE status = 'running' ORDER BY start_time DESC LIMIT 1
\* (the rows this may return: ties in start_time are not ordered).
GetCurrentGame(gs) ==
    {g \in Running(gs) : \A h \in Running(gs) : gs[h].start_time <= gs[g].start_time}

\* SELECT * FROM games WHERE status = 'running' AND end_time < now
GetExpiredGames(gs, t) == {g \in Running(gs) : gs[g].end_time < t}

\* The orders in which a SELECT without ORDER BY may return the rows of S.
Orderings(S) ==
    {q \in [1 .. Cardinality(S) -> S] : \A a, b \in DOMAIN q : q[a] = q[b] => a = b}

\* The variant whose UPDATE flips the status: a completed game runs again.
CompleteGameUpdateFlip(gs, g, winner, shortlist) ==
    IF g \in DOMAIN gs
    THEN [gs EXCEPT ![g].status = IF @ = "running" THEN "completed" ELSE "running",
                    ![g].winner_address = winner,
                    ![g].draw_shortlist = JsonStringify(shortlist)]
    ELSE gs

\* The variant whose UPDATE leaves winner_address as it was.
CompleteGameUpdateNoWinner(gs, g, winner, shortlist) ==
    IF g \in DOMAIN gs
    THEN [gs EXCEPT ![g].status = "completed",
                    ![g].draw_shortlist = JsonStringify(shortlist)]
    ELSE gs

\* UPDATE games SET status = 'completed', winner_address = ?, draw_shortlist = ?
CompleteGameUpdate(gs, g, winner, shortlist) ==
    IF g \in DOMAIN gs
    THEN [gs EXCEPT ![g].status = "completed",
                    ![g].winner_address = winner,
                    ![g].draw_shortlist = JsonStringify(shortlist)]
    ELSE gs

\* completeGame's guard on the winners insert: if (winnerAddress)
\* (HasWinnerAlways: the INSERT issued without the guard.)
HasWinnerAlways(winner) == TRUE
HasWinner(winner) == winner # NULL

\* UNIQUE KEY unique_game_winner (game_id)
\* (WinnerInsertAllowedAlways: the table without the key.)
WinnerInsertAllowedAlways(ws, g) == TRUE
WinnerInsertAllowed(ws, g) == \A k \in DOMAIN ws : ws[k].game_id # g

WinnerRow(g, winner, total, size) ==
    [game_id |-> g, wallet_address |-> winner,
     total_participants |-> total, shortlist_size |-> size]

\* transaction_sig VARCHAR(88) NOT NULL UNIQUE
\* (ParticipantInsertAllowedAlways: the column without UNIQUE.)
ParticipantInsertAllowedAlways(ps, sig) == TRUE
ParticipantInsertAllowed(ps, sig) ==
    \A k \in DOMAIN ps : ps[k].transaction_sig # sig

\* SELECT COUNT(*) FROM participants WHERE transaction_sig = ?  (count > 0)
TransactionExists(ps, sig) == \E k \in DOMAIN ps : ps[k].transaction_sig = sig

ParticipantRow(g, wallet, sig, amount) ==
    [game_id |-> g, wallet_address |-> wallet,
     transaction_sig |-> sig, sol_amount |-> amount]

\* SELECT wallet_address FROM participants WHERE game_id = ?
RECURSIVE GetParticipantAddressesByGameId(_, _)
GetParticipantAddressesByGameId(ps, g) ==
    IF ps = <<>> THEN <<>>
    ELSE LET rest == GetParticipantAddressesByGameId(SubSeq(ps, 1, Len(ps) - 1), g)
             row == ps[Len(ps)]
         IN IF row.game_id = g THEN Append(rest, row.wallet_address) ELSE rest

\* solAmount * prizePercentage (0.001): a thousandth of an amount counted in
\* 0.0000001 SOL is the same number of 0.0000000001 SOL.
PrizeAddition(solAmount) == solAmount

\* A value stored in a DECIMAL(20,9) column is rounded to nine decimals.
Decimal9(p) == 10 * ((p + 5) \div 10)

\* UPDATE games SET total_volume = total_volume + ?, prize_pool = prize_pool + ?
\* WHERE game_id = ?
UpdateGameVolume(gs, g, amount) ==
    [gs EXCEPT ![g].total_volume = @ + amount,
               ![g].prize_pool = Decimal9(@ + PrizeAddition(amount))]

WinnersOf(g) == {k \in DOMAIN winners : winners[k].game_id = g}
ParticipantsOf(g) == {k \in DOMAIN participants : participants[k].game_id = g}
EntriesOf(sig) == {k \in DOMAIN participants : participants[k].transaction_sig = sig}

\* -------------------------------------------------------------- the scheduler
\* found, failed and created keep what the last cron cycle did: the expired
\* games it read, those whose draw threw, and how many games it created.
SchedAt(pc) ==
    [pc |-> pc, ctx |-> "none", queue |-> <<>>, game |-> 0, parts |-> <<>>,
     winner |-> NULL, shortlist |-> <<>>, found |-> {}, failed |-> {}, created |-> 0]

ListenerIdle == [pc |-> "idle", sig |-> 0, game |-> 0]

\* What the scheduler does once executeGameDraw has returned (it catches every
\* error of the draw): bootstrap returns and the cron job is started; a cron
\* cycle goes on to the next expired game, then to createNewGame.
AfterDrawTo(failed) ==
    IF sched.ctx = "boot"
    THEN /\ sched' = SchedAt("idle")
         /\ lastFire' = ClockUnit(now)
    ELSE /\ lastFire' = lastFire
         /\ IF sched.queue # <<>>
            THEN sched' = [SchedAt("drawRead") EXCEPT !.ctx = "fire",
                                                      !.game = Head(sched.queue),
                                                      !.queue = Tail(sched.queue),
                                                      !.found = sched.found,
                                                      !.failed = failed]
            ELSE sched' = [SchedAt("create") EXCEPT !.ctx = "fire",
                                                    !.found = sched.found,
                                                    !.failed = failed]

\* executeGameDraw returned normally, or after catching the draw's error.
AfterDraw == AfterDrawTo(sched.failed)
AfterFailedDraw == AfterDrawTo(sched.failed \cup {sched.game})

\* (CreateInitialGameNoCatchUp: a bootstrap that leaves an expired game alone.)
CreateInitialGameNoCatchUp ==
    /\ sched.pc = "boot"
    /\ IF GetCurrentGame(games) = {}
       THEN /\ sched' = SchedAt("bootCreate")
            /\ lastFire' = lastFire
       ELSE /\ sched' = SchedAt("idle")
            /\ lastFire' = ClockUnit(now)
    /\ UNCHANGED <<now, lst, incidents, storeVars, logVars, drawVars, pollVars>>

\* Scheduler.createInitialGame: getCurrentGame and the expiry test.
CreateInitialGame ==
    /\ sched.pc = "boot"
    /\ IF GetCurrentGame(games) = {}
       THEN /\ sched' = SchedAt("bootCreate")
            /\ lastFire' = lastFire
       ELSE \E g \in GetCurrentGame(games) :
               IF games[g].end_time <= now /\ games[g].status = "running"
               THEN /\ sched' = [SchedAt("drawRead") EXCEPT !.ctx = "boot", !.game = g]
                    /\ lastFire' = lastFire
               ELSE /\ sched' = SchedAt("idle")
                    /\ lastFire' = ClockUnit(now)
    /\ UNCHANGED <<now, lst, incidents, storeVars, logVars, drawVars, pollVars>>

\* Scheduler.createInitialGame: createNewGame when no game is running; an error
\* here ends the process (initializeServices exits).
CreateInitialGameInsert ==
    /\ sched.pc = "bootCreate"
    /\ Len(games) < MaxGames
    /\ \/ /\ games' = Append(games, NewGameRow(now))
          /\ sched' = SchedAt("idle")
          /\ lastFire' = ClockUnit(now)
          /\ incidents' = incidents
       \/ /\ incidents < MaxIncidents
          /\ incidents' = incidents + 1
          /\ sched' = SchedAt("exited")
          /\ UNCHANGED <<games, lastFire>>
    /\ UNCHANGED <<now, lst, participants, winners, logVars, drawVars, pollVars>>

\* (CronCycleNoDraw: a cycle that reads the expired games and draws none.)
CronCycleNoDraw ==
    /\ sched.pc = "idle"
    /\ CronMatches(now)
    /\ lastFire < ClockUnit(now)
    /\ Len(games) < MaxGames
    /\ lastFire' = ClockUnit(now)
    /\ sched' = [SchedAt("create") EXCEPT !.ctx = "fire",
                                          !.found = GetExpiredGames(games, now)]
    /\ UNCHANGED <<now, lst, incidents, storeVars, logVars, drawVars, pollVars>>

\* (CronCycleOnlyWhenExpired: a cycle that runs only when a game has expired.)
CronCycleOnlyWhenExpired ==
    /\ sched.pc = "idle"
    /\ CronMatches(now)
    /\ lastFire < ClockUnit(now)
    /\ Len(games) < MaxGames
    /\ GetExpiredGames(games, now) # {}
    /\ lastFire' = ClockUnit(now)
    /\ \E q \in Orderings(GetExpiredGames(games, now)) :
          sched' = [SchedAt("drawRead") EXCEPT !.ctx = "fire",
                                              !.game = Head(q),
                                              !.queue = Tail(q),
                                              !.found = Range(q)]
    /\ UNCHANGED <<now, lst, incidents, storeVars, logVars, drawVars, pollVars>>

\* The cron callback starts: getExpiredGames.
CronCycle ==
    /\ sched.pc = "idle"
    /\ CronMatches(now)
    /\ lastFire < ClockUnit(now)
    /\ Len(games) < MaxGames
    /\ lastFire' = ClockUnit(now)
    /\ \E q \in Orderings(GetExpiredGames(games, now)) :
          IF q = <<>>
          THEN sched' = [SchedAt("create") EXCEPT !.ctx = "fire"]
          ELSE sched' = [SchedAt("drawRead") EXCEPT !.ctx = "fire",
                                                    !.game = Head(q),
                                                    !.queue = Tail(q),
                                                    !.found = Range(q)]
    /\ UNCHANGED <<now, lst, incidents, storeVars, logVars, drawVars, pollVars>>

\* executeDrawForGame: getParticipantAddressesByGameId.
DrawRead ==
    /\ sched.pc = "drawRead"
    /\ sched' = [sched EXCEPT !.pc = "drawClose",
                              !.parts = GetParticipantAddressesByGameId(participants, sched.game)]
    /\ UNCHANGED <<now, lst, lastFire, incidents, storeVars, logVars, drawVars, pollVars>>

\* The (shortlist, winner) pairs executeDrawForGame may compute from a list.
DrawOutcomes(parts) ==
    IF Len(parts) = 0
    THEN {[shortlist |-> <<>>, winner |-> NULL]}
    ELSE UNION {
           LET sl == selectShortlist(parts, ShortlistCap, c)
           IN {[shortlist |-> sl, winner |-> selectRandomWinner(sl, r)] :
                   r \in RandomIndex(Len(sl))} :
           c \in ChoiceSeqs(Len(Dedup(parts)))}

\* executeDrawForGame: shortlist, winner, and completeGame's UPDATE of the game.
DrawClose ==
    /\ sched.pc = "drawClose"
    /\ \/ /\ \E o \in DrawOutcomes(sched.parts) :
               /\ games' = CompleteGameUpdate(games, sched.game, o.winner, o.shortlist)
               /\ IF HasWinner(o.winner)
                  THEN /\ sched' = [sched EXCEPT !.pc = "drawWinner",
                                                 !.winner = o.winner,
                                                 !.shortlist = o.shortlist]
                       /\ UNCHANGED <<lastFire, drawLog>>
                  ELSE /\ AfterDraw
                       /\ drawLog' = drawLog \cup
                              {[game |-> sched.game, read |-> Len(sched.parts),
                                winner |-> o.winner, shortlist |-> o.shortlist]}
               /\ closeLog' = [closeLog EXCEPT ![sched.game] =
                                  IF o.winner # NULL THEN @ + 1 ELSE @]
          /\ incidents' = incidents
       \/ /\ incidents < MaxIncidents
          /\ incidents' = incidents + 1
          /\ AfterFailedDraw
          /\ UNCHANGED <<games, closeLog, drawLog>>
    /\ UNCHANGED <<now, lst, participants, winners, admitLog, drawVars, pollVars>>

\* completeGame's INSERT INTO winners, then executeDrawForGame returns.
DrawWinner ==
    /\ sched.pc = "drawWinner"
    /\ \/ /\ WinnerInsertAllowed(winners, sched.game)
          /\ winners' = Append(winners,
                 WinnerRow(sched.game, sched.winner, Len(sched.parts), Len(sched.shortlist)))
          /\ drawLog' = drawLog \cup
                 {[game |-> sched.game, read |-> Len(sched.parts),
                   winner |-> sched.winner, shortlist |-> sched.shortlist]}
          /\ incidents' = incidents
          /\ AfterDraw
       \/ /\ ~WinnerInsertAllowed(winners, sched.game)
          /\ UNCHANGED <<winners, drawLog, incidents>>
          /\ AfterFailedDraw
       \/ /\ incidents < MaxIncidents
          /\ incidents' = incidents + 1
          /\ UNCHANGED <<winners, drawLog>>
          /\ AfterFailedDraw
    /\ UNCHANGED <<now, lst, games, participants, admitLog, closeLog, drawVars, pollVars>>

\* The cron callback's createNewGame; an error ends the cycle.
CronCreate ==
    /\ sched.pc = "create"
    /\ \/ /\ games' = Append(games, NewGameRow(now))
          /\ incidents' = incidents
       \/ /\ incidents < MaxIncidents
          /\ incidents' = incidents + 1
          /\ games' = games
    /\ sched' = [SchedAt("idle") EXCEPT !.found = sched.found,
                                        !.failed = sched.failed,
                                        !.created = Len(games') - Len(games)]
    /\ UNCHANGED <<now, lst, lastFire, participants, winners, logVars, drawVars, pollVars>>

\* --------------------------------------------------------------- the listener
\* The listener is started once bootstrap has returned.
ListenerStarted == sched.pc \notin {"boot", "bootCreate", "exited"} /\ sched.ctx # "boot"

\* processTransaction(signature): transactionExists, then the ledger detail.
ProcessTransaction(w, s) ==
    /\ ListenerStarted
    /\ lst[w].pc = "idle"
    /\ IF \/ TransactionExists(participants, s)
          \/ ~TxOf(s).complete
          \/ ~ValidateTransaction(TxOf(s))
       THEN lst' = lst
       ELSE lst' = [lst EXCEPT ![w] = [pc |-> "resolve", sig |-> s, game |-> 0]]
    /\ UNCHANGED <<now, sched, lastFire, incidents, storeVars, logVars, drawVars, pollVars>>

\* processTransaction: getCurrentGame.
ResolveGame(w) ==
    /\ lst[w].pc = "resolve"
    /\ IF GetCurrentGame(games) = {}
       THEN lst' = [lst EXCEPT ![w] = ListenerIdle]
       ELSE \E g \in GetCurrentGame(games) :
               lst' = [lst EXCEPT ![w].pc = "insert", ![w].game = g]
    /\ UNCHANGED <<now, sched, lastFire, incidents, storeVars, logVars, drawVars, pollVars>>

\* addParticipant: INSERT INTO participants; ER_DUP_ENTRY ends the processing.
AddParticipant(w) ==
    /\ lst[w].pc = "insert"
    /\ IF ParticipantInsertAllowed(participants, lst[w].sig)
       THEN /\ participants' = Append(participants,
                   ParticipantRow(lst[w].game, WalletOf(lst[w].sig), lst[w].sig,
                                  SolAmountOf(lst[w].sig)))
            /\ admitLog' = Append(admitLog, games[lst[w].game].status)
            /\ lst' = [lst EXCEPT ![w].pc = "volume"]
       ELSE /\ lst' = [lst EXCEPT ![w] = ListenerIdle]
            /\ UNCHANGED <<participants, admitLog>>
    /\ UNCHANGED <<now, sched, lastFire, incidents, games, winners,
                   closeLog, drawLog, drawVars, pollVars>>

\* addParticipant: updateGameVolume; an error is logged by processTransaction.
UpdateVolume(w) ==
    /\ lst[w].pc = "volume"
    /\ \/ /\ games' = UpdateGameVolume(games, lst[w].game, SolAmountOf(lst[w].sig))
          /\ incidents' = incidents
       \/ /\ incidents < MaxIncidents
          /\ incidents' = incidents + 1
          /\ games' = games
    /\ lst' = [lst EXCEPT ![w] = ListenerIdle]
    /\ UNCHANGED <<now, sched, lastFire, participants, winners, logVars, drawVars, pollVars>>

\* ------------------------------------------------------- clock and restarts
Tick ==
    /\ now < MaxTime
    /\ now' = now + 1
    /\ UNCHANGED <<sched, lst, lastFire, incidents, storeVars, logVars, drawVars, pollVars>>

\* The process is stopped and started again: everything in memory is lost, the
\* store is kept, and initializeServices runs createInitialGame.
Restart ==
    /\ incidents < MaxIncidents
    /\ incidents' = incidents + 1
    /\ sched' = SchedAt("boot")
    /\ lst' = [w \in Workers |-> ListenerIdle]
    /\ UNCHANGED <<now, lastFire, storeVars, logVars, drawVars, pollVars>>

DrawOff ==
    /\ dIn = <<>> /\ dMax = 0 /\ dPc = "off" /\ dArr = <<>>
    /\ dChoices = <<>> /\ dShortlist = <<>> /\ dWinner = NULL

\* The listener before startListening() (the constructor's fields), with no
\* execution of its poll body, and no call of retryOperation under study.
TickIds == {1, 2}
\* (afterSkip notes that the execution began when the one before it had
\* ended in the catch block.)
TickIdle == [pc |-> "idle", currentSlot |-> 0, page |-> <<>>, i |-> 0,
             afterSkip |-> FALSE]
ListenerNew ==
    [isListening |-> FALSE, pollInterval |-> FALSE, connection |-> TRUE,
     lastProcessedSlot |-> NULL, retryCount |-> 0,
     attempted |-> {}, dropped |-> {}, stopped |-> FALSE]
RetryOff == [pc |-> "off", maxRetries |-> 0, attempt |-> 0, calls |-> 0,
             errors |-> <<>>, result |-> NULL, thrown |-> NULL]
PollOff ==
    /\ ledger = [slot |-> 0, chain |-> <<>>]
    /\ lsn = ListenerNew
    /\ ticks = [t \in TickIds |-> TickIdle]
    /\ rt = RetryOff

Init ==
    /\ now = 0
    /\ games = <<>> /\ participants = <<>> /\ winners = <<>>
    /\ sched = SchedAt("boot")
    /\ lst = [w \in Workers |-> ListenerIdle]
    /\ lastFire = 0
    /\ incidents = 0
    /\ admitLog = <<>>
    /\ closeLog = [g \in 1 .. MaxGames |-> 0]
    /\ drawLog = {}
    /\ DrawOff
    /\ PollOff

Next ==
    \/ CreateInitialGame
    \/ CreateInitialGameInsert
    \/ CronCycle
    \/ DrawRead
    \/ DrawClose
    \/ DrawWinner
    \/ CronCreate
    \/ \E w \in Workers, s \in Sigs : ProcessTransaction(w, s)
    \/ \E w \in Workers : ResolveGame(w)
    \/ \E w \in Workers : AddParticipant(w)
    \/ \E w \in Workers : UpdateVolume(w)
    \/ Tick
    \/ Restart

Spec == Init /\ [][Next]_vars

\* ------------------------------------------------ a start over an old store
\* The process starts over the store an earlier run left: game 1, created one
\* game duration ago and still running, with no entry or with one; its end
\* time is reached (now = 0) or passed when initializeServices runs.
OldGame == [NewGameRow(0 - Period) EXCEPT !.end_time = 0]

InitRestart ==
    /\ now \in {0, 1}
    /\ \/ /\ participants = <<>>
          /\ games = <<OldGame>>
       \/ /\ participants = <<ParticipantRow(1, WalletOf(1), 1, SolAmountOf(1))>>
          /\ games = UpdateGameVolume(<<OldGame>>, 1, SolAmountOf(1))
    /\ winners = <<>>
    /\ sched = SchedAt("boot")
    /\ lst = [w \in Workers |-> ListenerIdle]
    /\ lastFire = 0
    /\ incidents = 0
    /\ admitLog = <<>>
    /\ closeLog = [g \in 1 .. MaxGames |-> 0]
    /\ drawLog = {}
    /\ DrawOff
    /\ PollOff

SpecRestart == InitRestart /\ [][Next]_vars

\* ------------------------------------------- the scheduler with a fair timer
\* The listener stays in monitoring mode (no token mint configured), so only
\* the scheduler acts. The clock runs over enough cron minutes for every
\* incident to spoil one cycle and one more cycle to follow.
HorizonSched == MaxTime + Period * MaxIncidents

\* The cron job is due: it is scheduled, the minute matches, and it has not
\* fired in this minute.
CronDue ==
    /\ sched.pc = "idle"
    /\ CronMatches(now)
    /\ lastFire < ClockUnit(now)
    /\ Len(games) < MaxGames

\* Time passes, but a due cron job fires before its minute is over, and the
\* statements of a bootstrap or of a cycle under way return within the minute.
TickSched ==
    /\ now < HorizonSched
    /\ ClockUnit(now + 1) # ClockUnit(now) =>
           /\ ~CronDue
           /\ sched.pc \in {"idle", "exited"}
    /\ now' = now + 1
    /\ UNCHANGED <<sched, lst, lastFire, incidents, storeVars, logVars, drawVars, pollVars>>

NextSched ==
    \/ CreateInitialGame
    \/ CreateInitialGameInsert
    \/ CronCycle
    \/ DrawRead
    \/ DrawClose
    \/ DrawWinner
    \/ CronCreate
    \/ TickSched
    \/ Restart

\* The timer fires and every awaited step of the scheduler is resumed.
SpecSchedFair ==
    /\ InitRestart
    /\ [][NextSched]_vars
    /\ WF_vars(TickSched)
    /\ WF_vars(CreateInitialGame)
    /\ WF_vars(CreateInitialGameInsert)
    /\ WF_vars(CronCycle)
    /\ WF_vars(DrawRead)
    /\ WF_vars(DrawClose)
    /\ WF_vars(DrawWinner)
    /\ WF_vars(CronCreate)

\* --------------------------------------------- a start over two open games
\* The store an earlier run left when its cron cycle ran at the very instant
\* game 1 ended (end_time < now is false then): game 1 still running, with
\* one entry, and game 2 just created.
InitTwoOpen ==
    /\ now \in {0, 1}
    /\ participants = <<ParticipantRow(1, WalletOf(1), 1, SolAmountOf(1))>>
    /\ games = Append(UpdateGameVolume(<<OldGame>>, 1, SolAmountOf(1)), NewGameRow(0))
    /\ winners = <<>>
    /\ sched = SchedAt("boot")
    /\ lst = [w \in Workers |-> ListenerIdle]
    /\ lastFire = 0
    /\ incidents = 0
    /\ admitLog = <<>>
    /\ closeLog = [g \in 1 .. MaxGames |-> 0]
    /\ drawLog = {}
    /\ DrawOff
    /\ PollOff

SpecTwoOpen == InitTwoOpen /\ [][NextSched]_vars

\* ------------------------------------------- the services called directly
\* GameService.completeGame(gameId, winnerAddress, drawShortlist, total) as one
\* call: the UPDATE, then the INSERT when a winner is given (a duplicate
\* game_id makes the INSERT, and so the call, fail with ER_DUP_ENTRY).
CompleteGame(g, winner, shortlist, total) ==
    /\ games' = CompleteGameUpdate(games, g, winner, shortlist)
    /\ IF HasWinner(winner) /\ WinnerInsertAllowed(winners, g)
       THEN winners' = Append(winners, WinnerRow(g, winner, total, Len(shortlist)))
       ELSE winners' = winners
    /\ closeLog' = [closeLog EXCEPT ![g] = IF winner # NULL THEN @ + 1 ELSE @]

SvcCreateNewGame ==
    /\ Len(games) < MaxSvcGames
    /\ games' = Append(games, NewGameRow(now))
    /\ UNCHANGED <<sysVars, participants, winners, logVars, drawVars, pollVars>>

\* ParticipantService.addParticipant as one call: the INSERT, then
\* updateGameVolume; a duplicate signature fails the call.
SvcAddParticipant(g, s) ==
    /\ g \in DOMAIN games
    /\ IF ParticipantInsertAllowed(participants, s)
       THEN /\ participants' = Append(participants,
                   ParticipantRow(g, WalletOf(s), s, SolAmountOf(s)))
            /\ admitLog' = Append(admitLog, games[g].status)
            /\ games' = UpdateGameVolume(games, g, SolAmountOf(s))
       ELSE UNCHANGED <<participants, admitLog, games>>
    /\ UNCHANGED <<sysVars, winners, closeLog, drawLog, drawVars, pollVars>>

\* The spends of the sampled ledger details: 0.039 SOL, 0.04 SOL,
\* 0.0400001 SOL and 10 SOL.
SpendSamples ==
    {MinSolAmount - (MinSolAmount \div 40), MinSolAmount, MinSolAmount + 1,
     250 * MinSolAmount}

\* Ledger details: one without its transaction part, and complete ones with
\* and without an error.
TxSamples ==
    {[complete |-> FALSE, failed |-> FALSE, spent |-> MinSolAmount]}
      \cup [complete : {TRUE}, failed : BOOLEAN, spent : SpendSamples]

\* What processTransaction(signature) leaves in the store when the ledger
\* returns the detail tx and no statement fails.
ProcessTransactionStore(ps, gs, s, tx) ==
    IF \/ TransactionExists(ps, s)
       \/ ~tx.complete
       \/ ~ValidateTransaction(tx)
       \/ GetCurrentGame(gs) = {}
    THEN [participants |-> ps, games |-> gs]
    ELSE LET g == CHOOSE c \in GetCurrentGame(gs) : TRUE
         IN [participants |-> Append(ps, ParticipantRow(g, WalletOf(s), s, tx.spent)),
             games |-> UpdateGameVolume(gs, g, tx.spent)]

\* SolanaListener.processTransaction(signature) as one call.
SvcProcessTransaction(s, tx) ==
    /\ participants' = ProcessTransactionStore(participants, games, s, tx).participants
    /\ games' = ProcessTransactionStore(participants, games, s, tx).games
    /\ admitLog' = IF Len(participants') > Len(participants)
                   THEN Append(admitLog, "running")
                   ELSE admitLog
    /\ UNCHANGED <<sysVars, winners, closeLog, drawLog, drawVars, pollVars>>

SvcCompleteGame(g, winner) ==
    /\ g \in DOMAIN games
    /\ closeLog[g] < MaxCalls
    /\ IF winner = NULL
       THEN CompleteGame(g, NULL, <<>>, 0)
       ELSE CompleteGame(g, winner, <<winner>>, 1)
    /\ UNCHANGED <<sysVars, participants, admitLog, drawLog, drawVars, pollVars>>

\* DrawService.executeDrawForGame(gameId) as one call.
SvcExecuteDrawForGame(g) ==
    /\ g \in DOMAIN games
    /\ closeLog[g] < MaxCalls
    /\ LET parts == GetParticipantAddressesByGameId(participants, g)
       IN \E o \in DrawOutcomes(parts) :
             CompleteGame(g, o.winner, o.shortlist, Len(parts))
    /\ UNCHANGED <<sysVars, participants, admitLog, drawLog, drawVars, pollVars>>

NextService ==
    \/ SvcCreateNewGame
    \/ \E g \in 1 .. MaxSvcGames, s \in Sigs : SvcAddParticipant(g, s)
    \/ \E g \in 1 .. MaxSvcGames, w \in {WalletOf(s) : s \in Sigs} \cup {NULL} :
          SvcCompleteGame(g, w)
    \/ \E g \in 1 .. MaxSvcGames : SvcExecuteDrawForGame(g)

SpecService == Init /\ [][NextService]_vars

\* ------------------------------------------ transactions processed in turn
\* createNewGame and processTransaction called one after the other while
\* time passes, with every sampled ledger detail.
NextIngest ==
    \/ SvcCreateNewGame
    \/ \E s \in Sigs, tx \in TxSamples : SvcProcessTransaction(s, tx)
    \/ Tick

SpecIngest == Init /\ [][NextIngest]_vars

\* ------------------------------------------------------ the listener's poll
\* Signature k of the watched address was recorded in slot ledger.chain[k];
\* ledger.slot is what connection.getSlot() returns.
\* getSignaturesForAddress(address, {limit}): the newest signatures first, and
\* no more than limit of them.
GetSignaturesForAddress(chain, limit) ==
    [k \in 1 .. Min(Len(chain), limit) |-> Len(chain) + 1 - k]

\* The chain moves on by one slot, in which the watched address gets n
\* signatures: none, one, or one more than a page holds.
SlotAdvance(n) ==
    /\ ledger.slot < MaxSlot
    /\ n = 1 => Len(ledger.chain) < MaxChain
    /\ n > 1 => ledger.chain = <<>>
    /\ ledger' = [slot |-> ledger.slot + 1,
                  chain |-> ledger.chain \o [k \in 1 .. n |-> ledger.slot + 1]]
    /\ UNCHANGED <<sysVars, storeVars, logVars, drawVars, lsn, ticks, rt>>

\* The cron cycle that closed the last game inserts the next one.
CycleCreatesGame ==
    /\ GetCurrentGame(games) = {}
    /\ Len(games) < MaxGames
    /\ games' = Append(games, NewGameRow(now))
    /\ UNCHANGED <<sysVars, participants, winners, logVars, drawVars, pollVars>>

\* The variant of the catch block that gives up: what startListening's catch
\* does, isListening = false and no timer.
CatchErrorStops(l) ==
    [l EXCEPT !.retryCount = IF @ < maxRetries THEN @ + 1 ELSE 0,
              !.isListening = FALSE, !.pollInterval = FALSE]

\* The catch block of checkForNewTransactions.
CatchError(l) ==
    [l EXCEPT !.retryCount = IF @ < maxRetries THEN @ + 1 ELSE 0]

\* The setInterval callback calls checkForNewTransactions() and does not wait
\* for it: the body starts whatever earlier bodies are doing.
PollFire(t) ==
    /\ lsn.pollInterval
    /\ lsn.isListening
    /\ ticks[t].pc = "idle"
    /\ \A u \in TickIds : u < t => ticks[u].pc # "idle"
    /\ ticks' = [ticks EXCEPT ![t] = [TickIdle EXCEPT !.pc = "getSlot",
                                        !.afterSkip = lsn.retryCount > 0]]
    /\ UNCHANGED <<sysVars, storeVars, logVars, drawVars, ledger, lsn, rt>>

\* A ledger read whose retries are all used up, or made on the released
\* connection handle, throws into the catch block.
PollReadFails(t) ==
    /\ \/ /\ ~lsn.connection
          /\ UNCHANGED incidents
       \/ /\ lsn.connection
          /\ incidents < MaxIncidents
          /\ incidents' = incidents + 1
    /\ lsn' = CatchError(lsn)
    /\ ticks' = [ticks EXCEPT ![t] = TickIdle]
    /\ UNCHANGED <<now, sched, lst, lastFire, storeVars, logVars, drawVars, ledger, rt>>

\* const currentSlot = await retryOperation(getSlot);
\* if (currentSlot <= this.lastProcessedSlot) return;
PollGetSlot(t) ==
    /\ ticks[t].pc = "getSlot"
    /\ \/ /\ lsn.connection
          /\ ticks' = [ticks EXCEPT ![t] =
                 IF ledger.slot <= lsn.lastProcessedSlot
                 THEN TickIdle
                 ELSE [@ EXCEPT !.pc = "getSigs", !.currentSlot = ledger.slot]]
          /\ UNCHANGED <<sysVars, storeVars, logVars, drawVars, ledger, lsn, rt>>
       \/ PollReadFails(t)

\* const signatures = await retryOperation(getSignaturesForAddress(limit: 25))
PollGetSignatures(t) ==
    /\ ticks[t].pc = "getSigs"
    /\ \/ /\ lsn.connection
          /\ ticks' = [ticks EXCEPT ![t] =
                 [@ EXCEPT !.pc = "loop", !.i = 1,
                           !.page = GetSignaturesForAddress(ledger.chain, PageLimit)]]
          /\ UNCHANGED <<sysVars, storeVars, logVars, drawVars, ledger, lsn, rt>>
       \/ PollReadFails(t)

\* The variant of the loop that gives the batch up after one candidate.
NextTurnBreak(tk) == [tk EXCEPT !.i = Len(tk.page) + 1]

\* for (const sigInfo of signatures): on to the next element.
NextTurn(tk) == [tk EXCEPT !.i = @ + 1]

\* One turn of the for loop: a signature at or below the marker is passed
\* over, any other goes to processTransaction, which either runs through
\* (on the released connection handle it catches its own TypeError and
\* leaves the store alone) or has a ledger read or a store statement fail
\* and catches that error.
PollLoop(t) ==
    /\ ticks[t].pc = "loop"
    /\ ticks[t].i <= Len(ticks[t].page)
    /\ LET s == ticks[t].page[ticks[t].i]
           after == IF lsn.connection
                    THEN ProcessTransactionStore(participants, games, s, TxOf(s))
                    ELSE [participants |-> participants, games |-> games]
       IN \/ /\ ledger.chain[s] <= lsn.lastProcessedSlot
             /\ UNCHANGED <<storeVars, admitLog, lsn, incidents>>
          \/ /\ ledger.chain[s] > lsn.lastProcessedSlot
             /\ participants' = after.participants
             /\ games' = after.games
             /\ admitLog' = IF Len(participants') > Len(participants)
                            THEN Append(admitLog, "running")
                            ELSE admitLog
             /\ lsn' = [lsn EXCEPT
                   !.attempted = @ \cup {s},
                   !.dropped = IF /\ lsn.connection
                                  /\ ~TransactionExists(participants, s)
                                  /\ ValidateTransaction(TxOf(s))
                                  /\ GetCurrentGame(games) = {}
                               THEN @ \cup {s} ELSE @]
             /\ UNCHANGED <<winners, incidents>>
          \/ /\ ledger.chain[s] > lsn.lastProcessedSlot
             /\ lsn.connection
             /\ ~TransactionExists(participants, s)
             /\ incidents < MaxIncidents
             /\ incidents' = incidents + 1
             /\ lsn' = [lsn EXCEPT !.attempted = @ \cup {s}]
             /\ UNCHANGED <<storeVars, admitLog>>
    /\ ticks' = [ticks EXCEPT ![t] = NextTurn(@)]
    /\ UNCHANGED <<now, sched, lst, lastFire, closeLog, drawLog, drawVars, ledger, rt>>

\* this.lastProcessedSlot = currentSlot; this.retryCount = 0;
PollSetMarker(t) ==
    /\ ticks[t].pc = "loop"
    /\ ticks[t].i > Len(ticks[t].page)
    /\ lsn' = [lsn EXCEPT !.lastProcessedSlot = ticks[t].currentSlot,
                          !.retryCount = 0]
    /\ ticks' = [ticks EXCEPT ![t] = TickIdle]
    /\ UNCHANGED <<sysVars, storeVars, logVars, drawVars, ledger, rt>>

\* shutdown(signal): scheduler.stop() destroys the cron job, stopListening()
\* clears the interval and sets connection to null at once.
Shutdown ==
    /\ ~lsn.stopped
    /\ sched' = [sched EXCEPT !.pc = "stopped"]
    /\ lsn' = [lsn EXCEPT !.isListening = FALSE, !.pollInterval = FALSE,
                          !.connection = FALSE, !.stopped = TRUE]
    /\ UNCHANGED <<now, lst, lastFire, incidents, storeVars, logVars, drawVars,
                   ledger, ticks, rt>>

\* server.close's callback, or the forced exit ten seconds later, ends the
\* process and whatever was still running in it.
ProcessExit ==
    /\ lsn.stopped
    /\ sched.pc = "stopped"
    /\ sched' = [sched EXCEPT !.pc = "exited"]
    /\ ticks' = [t \in TickIds |-> TickIdle]
    /\ UNCHANGED <<now, lst, lastFire, incidents, storeVars, logVars, drawVars,
                   ledger, lsn, rt>>

\* The state once initializeServices is through and a cron cycle has closed
\* the first game: startListening has set the marker to the current slot.
InitPoll ==
    /\ now = 0
    /\ games = CompleteGameUpdate(<<OldGame>>, 1, NULL, <<>>)
    /\ participants = <<>> /\ winners = <<>>
    /\ sched = SchedAt("idle")
    /\ lst = [w \in Workers |-> ListenerIdle]
    /\ lastFire = 0
    /\ incidents = 0
    /\ admitLog = <<>>
    /\ closeLog = [g \in 1 .. MaxGames |-> 0]
    /\ drawLog = {}
    /\ DrawOff
    /\ ledger = [slot |-> 1, chain |-> <<>>]
    /\ lsn = [ListenerNew EXCEPT !.isListening = TRUE, !.pollInterval = TRUE,
                                 !.lastProcessedSlot = 1]
    /\ ticks = [t \in TickIds |-> TickIdle]
    /\ rt = RetryOff

NextPoll ==
    \/ \E n \in {0, 1} : SlotAdvance(n)
    \/ \E t \in TickIds : PollFire(t)
    \/ \E t \in TickIds : PollGetSlot(t)
    \/ \E t \in TickIds : PollGetSignatures(t)
    \/ \E t \in TickIds : PollLoop(t)
    \/ \E t \in TickIds : PollSetMarker(t)
    \/ Shutdown
    \/ ProcessExit

SpecPoll == InitPoll /\ [][NextPoll]_vars

\* The poll over a chain on which one slot may bring the watched address
\* more signatures than a page holds.
NextPage ==
    \/ \E n \in {0, 1, PageLimit + 1} : SlotAdvance(n)
    \/ \E t \in TickIds : PollFire(t)
    \/ \E t \in TickIds : PollGetSlot(t)
    \/ \E t \in TickIds : PollGetSignatures(t)
    \/ \E t \in TickIds : PollLoop(t)
    \/ \E t \in TickIds : PollSetMarker(t)

SpecPage == InitPoll /\ [][NextPage]_vars

\* The poll while a cron cycle is between closing a game and creating the
\* next one.
NextAdmit ==
    \/ \E n \in {0, 1} : SlotAdvance(n)
    \/ CycleCreatesGame
    \/ \E t \in TickIds : PollFire(t)
    \/ \E t \in TickIds : PollGetSlot(t)
    \/ \E t \in TickIds : PollGetSignatures(t)
    \/ \E t \in TickIds : PollLoop(t)
    \/ \E t \in TickIds : PollSetMarker(t)

SpecAdmit == InitPoll /\ [][NextAdmit]_vars

\* ------------------------------------------------ retryOperation on its own
\* The variant of the check `attempt === maxRetries` that never holds.
LastAttemptNever(attempt, n) == FALSE

\* if (attempt === maxRetries) throw error;
LastAttempt(attempt, n) == attempt = n

\* One turn of the for loop's body: operation() is called and raced against
\* the ten-second timer. It resolves (the value of attempt k is k), rejects
\* or throws, or is still pending when the timer rejects.
RetryAttempt ==
    /\ rt.pc = "loop"
    /\ rt.attempt <= rt.maxRetries
    /\ \/ rt' = [rt EXCEPT !.calls = @ + 1, !.result = rt.attempt,
                           !.pc = "returned"]
       \/ \E kind \in {"rejected", "Operation timeout"} :
             LET error == <<kind, rt.attempt>>
             IN rt' = [rt EXCEPT
                    !.calls = @ + 1,
                    !.errors = Append(@, error),
                    !.thrown = IF LastAttempt(rt.attempt, rt.maxRetries)
                               THEN error ELSE @,
                    !.pc = IF LastAttempt(rt.attempt, rt.maxRetries)
                           THEN "thrown" ELSE "delay"]
    /\ UNCHANGED <<sysVars, storeVars, logVars, drawVars, ledger, lsn, ticks>>

\* await setTimeout(backoffMs * attempt * 2); attempt++
RetryDelay ==
    /\ rt.pc = "delay"
    /\ rt' = [rt EXCEPT !.attempt = @ + 1, !.pc = "loop"]
    /\ UNCHANGED <<sysVars, storeVars, logVars, drawVars, ledger, lsn, ticks>>

\* The loop condition fails: the function ends without a return statement.
RetryLoopEnd ==
    /\ rt.pc = "loop"
    /\ rt.attempt > rt.maxRetries
    /\ rt' = [rt EXCEPT !.pc = "returned", !.result = NULL]
    /\ UNCHANGED <<sysVars, storeVars, logVars, drawVars, ledger, lsn, ticks>>

InitRetry ==
    /\ now = 0
    /\ games = <<>> /\ participants = <<>> /\ winners = <<>>
    /\ sched = SchedAt("boot")
    /\ lst = [w \in Workers |-> ListenerIdle]
    /\ lastFire = 0
    /\ incidents = 0
    /\ admitLog = <<>>
    /\ closeLog = [g \in 1 .. MaxGames |-> 0]
    /\ drawLog = {}
    /\ DrawOff
    /\ ledger = [slot |-> 0, chain |-> <<>>]
    /\ lsn = ListenerNew
    /\ ticks = [t \in TickIds |-> TickIdle]
    /\ \E n \in 0 .. MaxAttempts :
          rt = [RetryOff EXCEPT !.pc = "loop", !.maxRetries = n, !.attempt = 1]

NextRetry ==
    \/ RetryAttempt
    \/ RetryDelay
    \/ RetryLoopEnd

\* Every await of retryOperation is resumed: the race ends within ten
\* seconds and the back-off timer fires.
SpecRetry ==
    /\ InitRetry
    /\ [][NextRetry]_vars
    /\ WF_vars(RetryAttempt)
    /\ WF_vars(RetryDelay)
    /\ WF_vars(RetryLoopEnd)

\* ------------------------------------------- the listener against one game
\* Bootstrap has created the first game and the scheduler is between two
\* cron cycles: only executions of processTransaction run.
InitListen ==
    /\ now = 0
    /\ games = <<NewGameRow(0)>>
    /\ participants = <<>> /\ winners = <<>>
    /\ sched = SchedAt("idle")
    /\ lst = [w \in Workers |-> ListenerIdle]
    /\ lastFire = 0
    /\ incidents = 0
    /\ admitLog = <<>>
    /\ closeLog = [g \in 1 .. MaxGames |-> 0]
    /\ drawLog = {}
    /\ DrawOff
    /\ PollOff

NextListen ==
    \/ \E w \in Workers, s \in Sigs : ProcessTransaction(w, s)
    \/ \E w \in Workers : ResolveGame(w)
    \/ \E w \in Workers : AddParticipant(w)
    \/ \E w \in Workers : UpdateVolume(w)

SpecListen == InitListen /\ [][NextListen]_vars

\* ------------------------------------------------- one process, no restart
\* Bootstrap has created the first game; listener and cron job run on until
\* the clock's horizon, and the process is not started again.
NextRound ==
    \/ CronCycle
    \/ DrawRead
    \/ DrawClose
    \/ DrawWinner
    \/ CronCreate
    \/ \E w \in Workers, s \in Sigs : ProcessTransaction(w, s)
    \/ \E w \in Workers : ResolveGame(w)
    \/ \E w \in Workers : AddParticipant(w)
    \/ \E w \in Workers : UpdateVolume(w)
    \/ Tick

SpecRound == InitListen /\ [][NextRound]_vars

\* ------------------------------------------- the draw functions on their own
\* One list longer than the cap, to reach the truncation at ShortlistCap.
LongList == [k \in 1 .. (ShortlistCap + 1) |-> k]

DrawInputs == UNION {[1 .. n -> Wallets] : n \in 0 .. MaxLen} \cup {LongList}

DrawCaps == (1 .. MaxLen) \cup {ShortlistCap}

\* For a list too long to enumerate every shuffle: the choice sequences that
\* always pick the first, always the last, or always the middle index.
SampleChoiceSeqs(n) ==
    {[k \in 1 .. (n - 1) |-> 0],
     [k \in 1 .. (n - 1) |-> n - k],
     [k \in 1 .. (n - 1) |-> (n - k) \div 2]}

DrawChoiceSeqs(n) == IF n <= MaxLen THEN ChoiceSeqs(n) ELSE SampleChoiceSeqs(n)

InitDraw ==
    /\ now = 0
    /\ games = <<>> /\ participants = <<>> /\ winners = <<>>
    /\ sched = SchedAt("boot")
    /\ lst = [w \in Workers |-> ListenerIdle]
    /\ lastFire = 0
    /\ incidents = 0
    /\ admitLog = <<>>
    /\ closeLog = [g \in 1 .. MaxGames |-> 0]
    /\ drawLog = {}
    /\ dIn \in DrawInputs
    /\ dMax \in DrawCaps
    /\ dPc = "start"
    /\ dArr = <<>> /\ dChoices = <<>> /\ dShortlist = <<>> /\ dWinner = NULL
    /\ PollOff

\* selectShortlist(participants, maxCount)
SelectShortlist ==
    /\ dPc = "start"
    /\ \E c \in DrawChoiceSeqs(Len(Dedup(dIn))) :
          /\ dChoices' = c
          /\ dArr' = shuffleArray(Dedup(dIn), c)
          /\ dShortlist' = selectShortlist(dIn, dMax, c)
    /\ dPc' = "pick"
    /\ UNCHANGED <<sysVars, storeVars, logVars, pollVars, dIn, dMax, dWinner>>

\* selectRandomWinner(shortlist)
SelectRandomWinner ==
    /\ dPc = "pick"
    /\ IF Len(dShortlist) = 0
       THEN dWinner' = selectRandomWinner(dShortlist, 0)
       ELSE \E r \in RandomIndex(Len(dShortlist)) :
               dWinner' = selectRandomWinner(dShortlist, r)
    /\ dPc' = "done"
    /\ UNCHANGED <<sysVars, storeVars, logVars, pollVars, dIn, dMax, dArr, dChoices, dShortlist>>

NextDraw ==
    \/ SelectShortlist
    \/ SelectRandomWinner

SpecDraw == InitDraw /\ [][NextDraw]_vars

\* ==================================================================== claims
Count(a, x) == Cardinality({k \in DOMAIN a : a[k] = x})

IsPermutationOf(a, b) ==
    /\ Len(a) = Len(b)
    /\ \A x \in Range(a) \cup Range(b) : Count(a, x) = Count(b, x)

Distinct(a) == \A p, q \in DOMAIN a : a[p] = a[q] => p = q

\* C1: at most one game has status running (Open) in the store at any instant,
\* whatever the alignment of bootstrap and cron cycles and whether draws fail.
C1_AtMostOneOpenGame == Cardinality(Running(games)) <= 1

\* C2: a transaction signature never has more than one participant row, across
\* all games, and has exactly one once an execution of processTransaction has
\* inserted it, however many executions handle it (also at the same time, also
\* after a restart).
C2_OneEntryPerSignature ==
    \A s \in Sigs :
        /\ Cardinality(EntriesOf(s)) <= 1
        /\ (\E w \in Workers : lst[w].pc = "volume" /\ lst[w].sig = s)
               => Cardinality(EntriesOf(s)) = 1

\* C2 witness: two executions hold the same signature, both past the
\* transactionExists pre-check; one has inserted its row, the other is about
\* to issue its INSERT.
C2_Witness ==
    \E s \in Sigs :
        /\ lst[1].pc = "volume" /\ lst[1].sig = s
        /\ lst[2].pc = "insert" /\ lst[2].sig = s
        /\ Cardinality(EntriesOf(s)) = 1

\* C3: every participant row was inserted into a game that was running (Open)
\* at the instant of the insert, never into a game already completed.
C3_InsertOnlyIntoOpenGame ==
    \A k \in DOMAIN admitLog : admitLog[k] = "running"

\* C4: every completed game that owns a participant row has exactly one winner
\* row and every completed game without participant rows has none (the instant
\* between completeGame's UPDATE and its INSERT is left out).
C4_ClosedGameWinnerRecord ==
    \A g \in DOMAIN games :
        (/\ games[g].status = "completed"
         /\ ~(sched.pc = "drawWinner" /\ sched.game = g))
        => Cardinality(WinnersOf(g)) = (IF ParticipantsOf(g) = {} THEN 0 ELSE 1)

\* C5: a game on which completeGame has been called with a winner, once or
\* several times, has exactly one winner row.
C5_OneWinnerRecordPerGame ==
    \A g \in DOMAIN games :
        closeLog[g] >= 1 => Cardinality(WinnersOf(g)) = 1

\* C5 witness: completeGame has been called twice with a winner on one game.
C5_Witness ==
    \E g \in DOMAIN games : closeLog[g] >= 2 /\ Cardinality(WinnersOf(g)) = 1

\* C6: no step changes the recorded winner, the recorded shortlist or the
\* winner rows of a game that is already completed.
C6_CloseOnClosedGameIsNoOp ==
    [][\A g \in DOMAIN games :
          games[g].status = "completed" =>
              /\ games'[g].winner_address = games[g].winner_address
              /\ games'[g].draw_shortlist = games[g].draw_shortlist
              /\ {winners'[k] : k \in {j \in DOMAIN winners' : winners'[j].game_id = g}}
                     = {winners[k] : k \in WinnersOf(g)}]_vars

\* C7: a draw that read zero participant rows returned no winner and an empty
\* shortlist, left the game completed and wrote no winner row.
C7_EmptyDraw ==
    \A d \in drawLog :
        d.read = 0 =>
            /\ d.winner = NULL
            /\ d.shortlist = <<>>
            /\ games[d.game].status = "completed"
            /\ games[d.game].winner_address = NULL
            /\ WinnersOf(d.game) = {}

\* C7 witness: a draw over zero participant rows has returned.
C7_Witness == \E d \in drawLog : d.read = 0

\* C8: selectShortlist(list, cap) returns min(k, cap) pairwise distinct
\* identities of the list, k being the number of unique identities; the cap
\* is 25 (ShortlistCap) or a smaller one that the short lists exceed.
C8_ShortlistSizeAndMembers ==
    dPc \in {"pick", "done"} =>
        /\ Len(dShortlist) = Min(Cardinality(Range(dIn)), dMax)
        /\ Distinct(dShortlist)
        /\ Range(dShortlist) \subseteq Range(dIn)

\* C8 witness: a list of more than 25 unique identities cut to 25.
C8_Witness ==
    /\ dPc = "done"
    /\ dMax = ShortlistCap
    /\ Cardinality(Range(dIn)) > ShortlistCap
    /\ Len(dShortlist) = ShortlistCap

\* C9: shuffleArray returns a permutation of its input; the order it returned
\* is produced by no other choice sequence than the one drawn, and the choice
\* sequences produce n! different orders (a bijection onto the permutations).
C9_ShuffleIsBijection ==
    dPc # "start" =>
        LET u == Dedup(dIn)
            n == Len(u)
        IN /\ IsPermutationOf(dArr, u)
           /\ \A c \in DrawChoiceSeqs(Len(dIn)) :
                  IsPermutationOf(shuffleArray(dIn, c), dIn)
           /\ n <= MaxLen =>
                  /\ \A c \in ChoiceSeqs(n) :
                         shuffleArray(u, c) = dArr => c = dChoices
                  /\ Cardinality(ChoiceSeqs(n)) = Fact(n)
                  /\ Cardinality({shuffleArray(u, c) : c \in ChoiceSeqs(n)}) = Fact(n)

\* C9 witness: a shuffle of three identities that moved the first one last.
C9_Witness ==
    /\ dPc = "done"
    /\ Len(dArr) >= 3
    /\ Len(dArr) <= MaxLen
    /\ dArr[Len(dArr)] = Dedup(dIn)[1]

\* C10: a draw over a non-empty list selects a winner, the winner is an
\* element of the shortlist, and the indexes the random draw can give are
\* exactly the indexes of the shortlist.
C10_WinnerFromShortlist ==
    (dPc = "done" /\ dIn # <<>>) =>
        /\ dWinner # NULL
        /\ dWinner \in Range(dShortlist)
        /\ {r + 1 : r \in RandomIndex(Len(dShortlist))} = DOMAIN dShortlist

\* C10 witness: the last entry of a shortlist of several was drawn.
C10_Witness ==
    /\ dPc = "done"
    /\ Len(dShortlist) >= 2
    /\ dWinner = dShortlist[Len(dShortlist)]

SameOutcome(other) ==
    /\ selectShortlist(other, dMax, dChoices) = dShortlist
    /\ \A r \in RandomIndex(Len(dShortlist)) :
           selectRandomWinner(selectShortlist(other, dMax, dChoices), r)
               = selectRandomWinner(dShortlist, r)

C14_CatchUpBeforeNewEntries ==
    (\E k \in DOMAIN participants : participants[k].game_id > 1) =>
        /\ games[1].status = "completed"
        /\ \E d \in drawLog : d.game = 1

FutureFires ==
    {u \in (ClockUnit(now) + 1) .. ClockUnit(HorizonSched) :
        u % GameDurationMinutes = 0}

\* C16: whenever no game is running after bootstrap or a cron cycle has
\* returned (the scheduler waits for its timer), and more cron minutes are to
\* come than incidents can still spoil, a game is running again later (or the
\* process has exited on a failed bootstrap creation).
C16_OpenGameAgain ==
    (/\ Running(games) = {}
     /\ sched.pc = "idle"
     /\ Len(games) < MaxGames
     /\ Cardinality(FutureFires) > MaxIncidents - incidents)
        ~> (Running(games) # {} \/ sched.pc = "exited")

\* C16 witness: a cron cycle that found no game to close, every earlier game
\* being completed, has created the running game.
C16_Witness ==
    /\ sched.pc = "idle"
    /\ sched.created = 1
    /\ sched.found = {}
    /\ Len(games) >= 2
    /\ \A g \in 1 .. (Len(games) - 1) : games[g].status = "completed"
    /\ games[Len(games)].status = "running"

\* The sum of the amounts of the entries of game g.
RECURSIVE SumAmounts(_, _)
SumAmounts(ps, g) ==
    IF ps = <<>> THEN 0
    ELSE LET row == ps[Len(ps)]
             rest == SumAmounts(SubSeq(ps, 1, Len(ps) - 1), g)
         IN IF row.game_id = g THEN rest + row.sol_amount ELSE rest

Abs(x) == IF x < 0 THEN 0 - x ELSE x

\* C17 as stated: the volume and the prize pool of a running game never
\* decrease, and those of a completed game never change.
C17_VolumeGrowsThenFrozen ==
    [][\A g \in DOMAIN games :
          /\ games[g].status = "running" =>
                 /\ games'[g].total_volume >= games[g].total_volume
                 /\ games'[g].prize_pool >= games[g].prize_pool
          /\ games[g].status = "completed" =>
                 /\ games'[g].total_volume = games[g].total_volume
                 /\ games'[g].prize_pool = games[g].prize_pool]_vars

\* C18 as stated: whenever no admission is in progress, the volume of every
\* game is the sum of the amounts of its entries, and its prize pool is a
\* thousandth of that volume (here to within the rounding of the column at
\* each entry, which is less than the claim asks).
C18_VolumeMatchesEntries ==
    (\A w \in Workers : lst[w].pc = "idle") =>
        \A g \in DOMAIN games :
            /\ games[g].total_volume = SumAmounts(participants, g)
            /\ Abs(games[g].prize_pool - PrizeAddition(games[g].total_volume))
                   <= 5 * Cardinality(ParticipantsOf(g))

\* C19 as stated: an admission of amount a, from its INSERT to its end, adds
\* exactly a to the volume of the owning game and exactly a thousandth of a
\* to its prize pool, and changes no other game.
C19_AdmissionAddsAmount ==
    [][\A w \in Workers :
          (lst[w].pc = "volume" /\ lst'[w].pc = "idle") =>
              LET g == lst[w].game
                  a == SolAmountOf(lst[w].sig)
              IN /\ games'[g].total_volume = games[g].total_volume + a
                 /\ games'[g].prize_pool = games[g].prize_pool + PrizeAddition(a)
                 /\ \A h \in DOMAIN games : h # g => games'[h] = games[h]]_vars

\* C20: with a signature not yet in the store, a running game and a complete
\* ledger detail, processTransaction admits the transaction exactly when the
\* detail carries no error and the spend is at least minSolAmount: 0.039 SOL
\* is rejected, 0.04 SOL and 0.0400001 SOL are admitted.
C20_AdmittedIffValid ==
    \A s \in Sigs, tx \in TxSamples :
        (/\ ~TransactionExists(participants, s)
         /\ GetCurrentGame(games) # {}
         /\ tx.complete)
            => LET after == ProcessTransactionStore(participants, games, s, tx)
                   admitted == TransactionExists(after.participants, s)
               IN /\ admitted <=> (~tx.failed /\ tx.spent >= MinSolAmount)
                  /\ (~tx.failed /\ tx.spent = MinSolAmount) => admitted
                  /\ tx.spent = MinSolAmount - (MinSolAmount \div 40) => ~admitted
                  /\ admitted =>
                        after.participants[Len(after.participants)].sol_amount = tx.spent

\* C20 witness: a game holds an entry of exactly 0.04 SOL and one of
\* 0.0400001 SOL, both admitted by processTransaction.
C20_Witness ==
    /\ \E k \in DOMAIN participants : participants[k].sol_amount = MinSolAmount
    /\ \E k \in DOMAIN participants : participants[k].sol_amount = MinSolAmount + 1
    /\ \E g \in DOMAIN games :
           games[g].total_volume = 2 * MinSolAmount + 1

\* C21: a signature that processTransaction dropped because no game was
\* running never gets a participants row afterwards, whatever game opens
\* later.
C21_DroppedNeverAdmitted ==
    \A k \in DOMAIN participants : participants[k].transaction_sig \notin lsn.dropped

\* C22 as stated: every game that is created starts at the instant of the
\* creating call and ends one configured duration later.
C22_StartIsCallTime ==
    [][Len(games') > Len(games) =>
          /\ games'[Len(games')].start_time = now
          /\ games'[Len(games')].end_time = now + Period]_vars

\* C22 amended: every game that is created is running, starts at the instant
\* of the creating call rounded to the unit the DATETIME column keeps (no
\* more than half a unit away from it), and ends exactly one configured
\* duration after its start; created a full unit or more after the end of a
\* completed game, it starts after that game's end and not at it.
C22_StartIsStoredCallTime ==
    [][Len(games') > Len(games) =>
          LET r == games'[Len(games')]
          IN /\ Len(games') = Len(games) + 1
             /\ r.status = "running"
             /\ r.start_time = DbDatetime(now)
             /\ 2 * Abs(r.start_time - now) <= Phases
             /\ r.end_time = r.start_time + Period
             /\ \A g \in DOMAIN games :
                   (games[g].status = "completed"
                      /\ now >= games[g].end_time + Phases)
                        => r.start_time > games[g].end_time]_vars

\* C22 witness: a cron cycle has closed a game more than a unit after its end
\* and created the next one, which starts off the instant of its creation
\* and after the old game's end.
C22_Witness ==
    /\ sched.pc = "idle"
    /\ sched.created = 1
    /\ \E g \in DOMAIN games :
          /\ g > 1
          /\ games[g].status = "running"
          /\ games[g].start_time # now
          /\ g - 1 \in sched.found
          /\ games[g - 1].status = "completed"
          /\ games[g].start_time >= games[g - 1].end_time + Phases

\* C23: a game's status is running or completed, a game is never removed,
\* and the only change of a status is from running to completed: no call of
\* createNewGame, addParticipant, completeGame or executeDrawForGame, in any
\* order and repeated, makes a completed game running again.
C23_StatusOnlyForward ==
    [][\A g \in DOMAIN games :
          /\ g \in DOMAIN games'
          /\ games'[g].status \in {"running", "completed"}
          /\ games'[g].status # games[g].status =>
                (games[g].status = "running" /\ games'[g].status = "completed")]_vars

\* C23 witness: completeGame has been called on a game a second time, and
\* an entry was inserted for the game after it was completed; it is completed.
C23_Witness ==
    \E g \in DOMAIN games :
        /\ games[g].status = "completed"
        /\ closeLog[g] = 2
        /\ \E k \in DOMAIN admitLog : admitLog[k] = "completed"

\* executeGameDraw emits winner_declared with what executeDrawForGame
\* returned, right after it returned: the notifications emitted for game g.
WinnerDeclared(g) == {d \in drawLog : d.game = g}

\* C24: every game that the scheduler has completed, its draw no longer in
\* progress, has exactly one winner_declared notification, and it carries
\* the winner and the shortlist recorded in the game's row.
C24_ClosedGameNotifiedOnce ==
    \A g \in DOMAIN games :
        (games[g].status = "completed" /\ ~(sched.pc = "drawWinner" /\ sched.game = g))
            => /\ Cardinality(WinnerDeclared(g)) = 1
               /\ \A d \in WinnerDeclared(g) :
                     /\ d.winner = games[g].winner_address
                     /\ JsonStringify(d.shortlist) = games[g].draw_shortlist

\* C25: once shutdown has begun no execution of the poll body begins, and
\* the connection handle is released only when no execution of the poll
\* body is in progress.
C25_ReleasedAfterTicksEnd ==
    /\ lsn.stopped => ~(lsn.pollInterval \/ lsn.isListening)
    /\ ~lsn.connection => \A t \in TickIds : ticks[t].pc = "idle"

\* C26: no step lowers lastProcessedSlot.
C26_MarkerNeverDecreases ==
    [][lsn'.lastProcessedSlot >= lsn.lastProcessedSlot]_vars

\* C27: at most one execution of the poll body is in progress at any time.
C27_OneTickAtATime ==
    Cardinality({t \in TickIds : ticks[t].pc # "idle"}) <= 1

\* C28: whenever lastProcessedSlot goes up from m to m', every signature of
\* the watched address recorded in a slot above m and up to m' has been
\* handed to processTransaction.
C28_AdvanceCoversRange ==
    [][lsn'.lastProcessedSlot > lsn.lastProcessedSlot =>
          \A k \in DOMAIN ledger.chain :
              (/\ ledger.chain[k] > lsn.lastProcessedSlot
               /\ ledger.chain[k] <= lsn'.lastProcessedSlot)
                  => k \in lsn'.attempted]_vars

\* C29: the step in which an execution of the poll body ends in its catch
\* block, a ledger read having used up its retries, leaves isListening, the
\* armed timer, the connection and lastProcessedSlot as they were, and the
\* execution is over, so that the next firing of the timer starts the body
\* again from the same marker.
C29_FailedTickSkipped ==
    [][\A t \in TickIds :
          (/\ ticks[t].pc \in {"getSlot", "getSigs"}
           /\ ticks'[t].pc = "idle"
           /\ lsn' # lsn)
              => /\ lsn'.retryCount # lsn.retryCount
                 /\ lsn'.isListening = lsn.isListening
                 /\ lsn'.pollInterval = lsn.pollInterval
                 /\ lsn'.connection = lsn.connection
                 /\ lsn'.lastProcessedSlot = lsn.lastProcessedSlot
                 /\ ticks'[t] = TickIdle]_vars

\* C29 witness: a read of the poll body has failed for good, the listener is
\* still listening with its timer armed, and the body started by a later
\* firing has read the slot and goes on from the marker the failed one had.
C29_Witness ==
    /\ incidents = 1
    /\ lsn.retryCount = 1
    /\ lsn.isListening /\ lsn.pollInterval
    /\ ticks[1].pc = "getSigs"
    /\ ticks[1].afterSkip
    /\ ticks[2].pc = "idle"
    /\ lsn.lastProcessedSlot = 1
    /\ lsn.attempted = {}

\* What holds of a call of retryOperation at every moment.
RetryInvariant ==
    /\ rt.calls <= rt.maxRetries
    /\ rt.calls = Len(rt.errors) + (IF rt.result # NULL THEN 1 ELSE 0)
    /\ rt.pc = "returned" =>
          /\ rt.thrown = NULL
          /\ IF rt.maxRetries >= 1
             THEN /\ rt.result = rt.calls
                  /\ Len(rt.errors) = rt.calls - 1
             ELSE rt.result = NULL /\ rt.calls = 0
    /\ rt.pc = "thrown" =>
          /\ rt.result = NULL
          /\ rt.calls = rt.maxRetries
          /\ Len(rt.errors) = rt.maxRetries
          /\ rt.thrown = rt.errors[rt.maxRetries]

\* C30: retryOperation(operation, n) calls the operation at most n times;
\* when it returns, with n at least 1, it returns the value of the one attempt
\* that succeeded, every attempt before it having failed and none made after
\* it; when it throws, exactly n attempts have failed, by rejecting or by
\* running into the timeout, and it throws the error of the last; and every
\* call ends by returning or throwing.
C30_RetryBoundedAndEnds ==
    /\ []RetryInvariant
    /\ <>(rt.pc \in {"returned", "thrown"})

\* C30 witness: a call with maxRetries = 3 has thrown the timeout of its third
\* attempt, after a rejection and a timeout.
C30_Witness ==
    /\ rt.pc = "thrown"
    /\ rt.maxRetries = 3
    /\ rt.calls = 3
    /\ rt.errors[1][1] = "rejected"
    /\ rt.thrown = <<"Operation timeout", 3>>

\* C31: retryCount stays within 0 .. maxRetries, and every execution of the
\* poll body that ends without an error (by its early return or after its
\* loop) leaves retryCount at 0.
C31_SuccessResetsRetryCount ==
    [][/\ lsn'.retryCount \in 0 .. maxRetries
       /\ \A t \in TickIds :
             (/\ ticks[t].pc # "idle"
              /\ ticks'[t].pc = "idle"
              /\ sched' = sched
              /\ lsn'.retryCount = lsn.retryCount \/ ticks[t].pc = "loop")
                 => lsn'.retryCount = 0]_vars

\* C32: processTransaction of a signature that already has a participants
\* row changes nothing. Stopped by transactionExists, the call returns with
\* no step that changes the state; stopped by the UNIQUE key at the INSERT
\* (the row was inserted by another execution after this one's pre-check), the
\* call ends with no row added, no game changed and no volume update or
\* notification to follow.
C32_DuplicateIsNoOp ==
    [][/\ \A w \in Workers, s \in Sigs :
             TransactionExists(participants, s)
                => ~ENABLED (ProcessTransaction(w, s) /\ vars' # vars)
       /\ \A w \in Workers :
             (/\ lst[w].pc = "insert"
              /\ TransactionExists(participants, lst[w].sig)
              /\ lst'[w] # lst[w]
              /\ sched' = sched)
                 => /\ lst'[w] = ListenerIdle
                    /\ participants' = participants
                    /\ games' = games
                    /\ admitLog' = admitLog
                    /\ incidents' = incidents]_vars

\* C32 witness: two executions passed the pre-check for the same signature;
\* one has inserted its row, the other is about to run its INSERT.
C32_Witness ==
    /\ lst[1].pc = "insert"
    /\ lst[2].pc = "volume"
    /\ lst[1].sig = lst[2].sig
    /\ TransactionExists(participants, lst[1].sig)

\* C33: whatever becomes of a candidate of a poll batch (admitted, already
\* there, dropped for want of a running game, or its processing failed and
\* caught), the for loop goes on to the next element of the same page, the
\* listener keeps listening, and whether the candidate is admitted depends on
\* the candidate and the store alone; when the loop ends, every signature of
\* the page above the marker has been handed to processTransaction.
C33_BatchGoesOn ==
    [][\A t \in TickIds :
          (ticks[t].pc = "loop" /\ ticks'[t] # ticks[t] /\ sched' = sched)
              => IF ticks[t].i <= Len(ticks[t].page)
                 THEN LET s == ticks[t].page[ticks[t].i]
                      IN /\ ticks'[t] = [ticks[t] EXCEPT !.i = @ + 1]
                         /\ lsn'.isListening = lsn.isListening
                         /\ lsn'.lastProcessedSlot = lsn.lastProcessedSlot
                         /\ ledger.chain[s] > lsn.lastProcessedSlot
                               => s \in lsn'.attempted
                         /\ (ledger.chain[s] > lsn.lastProcessedSlot
                               /\ incidents' = incidents)
                               => (TransactionExists(participants', s)
                                     <=> \/ TransactionExists(participants, s)
                                         \/ /\ ValidateTransaction(TxOf(s))
                                            /\ GetCurrentGame(games) # {})
                 ELSE \A k \in Range(ticks[t].page) :
                         ledger.chain[k] > lsn.lastProcessedSlot
                            => k \in lsn.attempted]_vars

\* C33 witness: in a batch of two candidates the processing of the first has
\* failed and the second has been admitted all the same.
C33_Witness ==
    /\ ticks[1].pc = "loop"
    /\ ticks[1].page = <<2, 1>>
    /\ ticks[1].i = 3
    /\ ticks[2].pc = "idle"
    /\ incidents = 1
    /\ lsn.attempted = {1, 2}
    /\ lsn.dropped = {}
    /\ ~TransactionExists(participants, 2)
    /\ TransactionExists(participants, 1)

\* C34: the expired games that a cron cycle still has to draw are queued in
\* ascending order of start_time.
C34_OldestExpiredFirst ==
    \A a \in DOMAIN sched.queue :
        /\ games[sched.game].start_time <= games[sched.queue[a]].start_time
        /\ \A b \in DOMAIN sched.queue :
              a < b => games[sched.queue[a]].start_time
                          <= games[sched.queue[b]].start_time

\* C35: participants rows are inserted in the order in which the ledger
\* recorded their signatures (signature k is the k-th recorded).
C35_AdmittedInLedgerOrder ==
    \A j, k \in DOMAIN participants :
        j < k => participants[j].transaction_sig < participants[k].transaction_sig

\* C36: the total_participants of every winners row is the number of
\* participants rows of its game.
C36_DrawReadsEveryEntry ==
    \A k \in DOMAIN winners :
        winners[k].total_participants = Cardinality(ParticipantsOf(winners[k].game_id))

\* C37: every participants row is inserted no later than the end_time of the
\* game it is inserted into.
C37_NoEntryAfterEndTime ==
    [][Len(participants') > Len(participants) =>
          now <= games[participants'[Len(participants')].game_id].end_time]_vars

\* The list stored in draw_shortlist, empty while the column is NULL.
StoredShortlist(g) ==
    IF games[g].draw_shortlist = SqlNull THEN <<>> ELSE games[g].draw_shortlist[2]

C39_FailedGameStaysOpen ==
    (sched.ctx = "fire" /\ sched.pc = "create") =>
        /\ sched.queue = <<>>
        /\ \A g \in sched.failed : games[g].status = "running"

\* C40: createInitialGame that finds a running game whose end time has not
\* passed (now <= end_time) returns at once: it goes on to no draw and no
\* creation, and leaves games, participants, winners and the notifications
\* as they were.
C40_BootstrapLeavesOpenGameAlone ==
    [][(/\ sched.pc = "boot"
        /\ sched'.pc # "boot"
        /\ GetCurrentGame(games) # {}
        /\ \A g \in GetCurrentGame(games) : now <= games[g].end_time) =>
          /\ sched'.pc = "idle"
          /\ UNCHANGED <<storeVars, logVars>>]_vars

====
